---- MODULE Spec2Model ----
(***************************************************************************)
(* Model of emails/headerregistry.py: RelayMessageIDHeader.parse and       *)
(* RelayHeaderRegistry.__call__, together with the parts of the standard   *)
(* library's email package they call (HeaderRegistry, BaseHeader.__new__,  *)
(* parse_message_id, get_unstructured).                                    *)
(*                                                                         *)
(* A header value is a sequence of characters over Alphabet.  The          *)
(* character "E" stands for the RFC 2047 encoded word "=?utf-8?q?x?=",     *)
(* which the unstructured grammar decodes to "x" and which the msg-id      *)
(* grammar reads as a run of atext.  All characters are ASCII, so          *)
(* BaseHeader.__new__ never takes its surrogate-escaping branch.           *)
(***************************************************************************)
EXTENDS Integers, Sequences, FiniteSets, TLC

\* ------------------------------------------------------------------ bounds
\* longest header value handed to the registry
MaxLen == 4
\* longest header value in the specification that keeps an earlier instance
MaxLenKept == 1

\* ------------------------------------------------------------------ values
Alphabet == {"<", ">", "@", "[", "a", "E"}

ValuesUpTo(n) == UNION {[1..k -> Alphabet] : k \in 0..n}

\* SPECIALS of _header_value_parser that occur in Alphabet; with no WSP, "."
\* or "(" in Alphabet, ATOM_ENDS and PHRASE_ENDS coincide with it.
SPECIALS == {"<", ">", "@", "["}

Drop(s, n) == SubSeq(s, n + 1, Len(s))

Take(s, n) == SubSeq(s, 1, n)

\* length of the longest prefix of s with no character in set
RECURSIVE UntilLen(_, _)
UntilLen(s, set) ==
  IF s = <<>> \/ Head(s) \in set THEN 0 ELSE 1 + UntilLen(Tail(s), set)

\* ----------------------------------------------------------------- defects
Defect(kind, arg) == [kind |-> kind, arg |-> arg]

\* errors.InvalidHeaderDefect(f"IndexError for invalid msg-id in '{value}'")
IndexErrorDefect(value) == Defect("IndexError for invalid msg-id in", value)

\* ------------------------------------------------------------- parse trees
\* A token is summarised by its type, its str() and its all_defects; a
\* TokenList keeps its children and its own defects apart.  A token is broken
\* when a defect object was appended to it as if it were a child token: str()
\* then renders the defect's text, and reading all_defects raises
\* AttributeError.
Token(type, str, defects) ==
  [type |-> type, str |-> str, all_defects |-> defects, broken |-> FALSE]

BrokenToken(type, str) ==
  [type |-> type, str |-> str, all_defects |-> <<>>, broken |-> TRUE]

TokenList(type, children, defects) ==
  [type |-> type, children |-> children, defects |-> defects]

RECURSIVE JoinStr(_)
JoinStr(children) ==
  IF children = <<>> THEN <<>> ELSE Head(children).str \o JoinStr(Tail(children))

RECURSIVE JoinDefects(_)
JoinDefects(children) ==
  IF children = <<>> THEN <<>>
  ELSE Head(children).all_defects \o JoinDefects(Tail(children))

\* TokenList.__str__
Str(tree) == JoinStr(tree.children)

\* TokenList.all_defects: the list's own defects, then its children's
AllDefects(tree) == tree.defects \o JoinDefects(tree.children)

\* reading tree.all_defects raises AttributeError
AllDefectsRaises(tree) == \E i \in DOMAIN tree.children : tree.children[i].broken

\* --------------------------------------------------- the unstructured grammar
\* get_encoded_word on a value that starts with the encoded word
EncodedWord(rest) ==
  Token("encoded-word", <<"x">>,
        IF rest # <<>>
        THEN <<Defect("missing trailing whitespace after encoded-word", <<>>)>>
        ELSE <<>>)

RECURSIVE UnstructuredLoop(_, _)
UnstructuredLoop(value, unstructured) ==
  IF value = <<>> THEN unstructured
  ELSE IF Head(value) = "E"
  THEN UnstructuredLoop(Tail(value),
         TokenList("unstructured",
           Append(unstructured.children, EncodedWord(Tail(value))),
           IF Len(unstructured.children) > 0
           THEN Append(unstructured.defects,
                       Defect("missing whitespace before encoded word", <<>>))
           ELSE unstructured.defects))
  ELSE LET n == UntilLen(value, {"E"})
       IN UnstructuredLoop(Drop(value, n),
            TokenList("unstructured",
              Append(unstructured.children, Token("vtext", Take(value, n), <<>>)),
              unstructured.defects))

get_unstructured(value) ==
  UnstructuredLoop(value, TokenList("unstructured", <<>>, <<>>))

\* ------------------------------------------------------- the msg-id grammar
\* What a parser call did: returned (exc = "None") or raised exc.
Returned(token, rest) ==
  [exc |-> "None", msg |-> <<>>, found |-> <<>>, token |-> token, rest |-> rest]

Raised(exc, msg, found) ==
  [exc |-> exc, msg |-> msg, found |-> found,
   token |-> Token("none", <<>>, <<>>), rest |-> <<>>]

\* the end of get_msg_id: the closing ">" is appended whether or not it was
\* present, and its absence is a defect of the msg-id
MsgIdEnd(str, value) ==
  IF value # <<>> /\ Head(value) = ">"
  THEN Returned(Token("msg-id", str \o <<">">>, <<>>), Tail(value))
  ELSE Returned(Token("msg-id", str \o <<">">>,
                      <<Defect("missing trailing '>' on msg-id", <<>>)>>),
                value)

\* id-right of get_msg_id when get_dot_atom_text has refused value: first
\* get_no_fold_literal, then get_domain.  left is the msg-id parsed so far.
ObsIdRight(left, value) ==
  IF value = <<>>
  THEN \* get_no_fold_literal raises HeaderParseError, get_domain reads value[0]
       Raised("IndexError", <<>>, <<>>)
  ELSE IF Head(value) # "["
  THEN \* get_no_fold_literal, get_dot_atom and get_atom all refuse a special
       Raised("HeaderParseError",
              "expected dot-atom-text, no-fold-literal or obs-id-right but found",
              value)
  ELSE IF Tail(value) = <<>>
  THEN \* get_dtext("") -> _get_ptext_to_endchars reads pos before binding it
       Raised("UnboundLocalError", <<>>, <<>>)
  ELSE LET n    == UntilLen(Tail(value), {"["})
           rest == Drop(Tail(value), n)
       IN IF rest # <<>>
          THEN \* neither literal is closed by "]"
               Raised("HeaderParseError",
                      "expected dot-atom-text, no-fold-literal or obs-id-right but found",
                      value)
          ELSE \* get_domain returns: _check_for_early_dl_end appends the
               \* defect "end of input inside domain-literal" to the literal's
               \* children, not to its defects
               Returned(BrokenToken("msg-id",
                          left \o <<"[">> \o Take(Tail(value), n)
                               \o <<"end of input inside domain-literal", "]", ">">>),
                        rest)

get_msg_id(value) ==
  IF value = <<>> \/ Head(value) # "<"
  THEN Raised("HeaderParseError", "expected msg-id but found", value)
  ELSE LET v1 == Tail(value)
           n  == UntilLen(v1, SPECIALS)
           v2 == Drop(v1, n)
           left == <<"<">> \o Take(v1, n)
       IN IF n = 0
          THEN \* get_dot_atom_text refuses, get_obs_local_part parses no word
               \* and then reads obs_local_part[0]
               Raised("IndexError", <<>>, <<>>)
          ELSE IF v2 = <<>> \/ Head(v2) # "@"
          THEN LET d == <<Defect("msg-id with no id-right", <<>>)>>
               IN IF v2 # <<>> /\ Head(v2) = ">"
                  THEN Returned(Token("msg-id", left \o <<">">>, d), Tail(v2))
                  ELSE Returned(Token("msg-id", left, d), v2)
          ELSE LET v3 == Tail(v2)
                   m  == UntilLen(v3, SPECIALS)
               IN IF m > 0
                  THEN MsgIdEnd(left \o <<"@">> \o Take(v3, m), Drop(v3, m))
                  ELSE ObsIdRight(left \o <<"@">>, v3)

\* parse_message_id: a HeaderParseError is turned into an InvalidMessageID
\* built from the children of the unstructured parse; any other exception of
\* get_msg_id leaves parse_message_id.  r is what get_msg_id(value) did.
parse_message_id_after(value, r) ==
  IF r.exc = "None"
  THEN [exc |-> "None",
        tree |-> TokenList("message-id", <<r.token>>,
                   IF r.rest # <<>> THEN <<Defect("Unexpected", r.rest)>>
                   ELSE <<>>)]
  ELSE IF r.exc = "HeaderParseError"
  THEN [exc |-> "None",
        tree |-> TokenList("invalid-message-id",
                   get_unstructured(value).children,
                   <<Defect("Invalid msg-id", <<r.msg, r.found>>)>>)]
  ELSE [exc |-> r.exc, tree |-> TokenList("none", <<>>, <<>>)]

parse_message_id(value) == parse_message_id_after(value, get_msg_id(value))

\* ------------------------------------------------------------ header names
MessageIdLower == <<"m", "e", "s", "s", "a", "g", "e", "-", "i", "d">>

MessageIdMixed == <<"M", "e", "s", "s", "a", "g", "e", "-", "I", "D">>

XCustom == <<"x", "-", "c", "u", "s", "t", "o", "m">>

Names == {MessageIdLower, MessageIdMixed, XCustom}

LowerChar(c) ==
  CASE c = "M" -> "m" [] c = "I" -> "i" [] c = "D" -> "d" [] OTHER -> c

\* str.lower
lower(name) == [i \in DOMAIN name |-> LowerChar(name[i])]

\* ------------------------------------------------------------ parser classes
Classes == {"UnstructuredHeader", "MessageIDHeader", "RelayMessageIDHeader"}

\* HeaderRegistry.default_class
default_class == "UnstructuredHeader"

\* ------------------------------------------- the heap of defect accumulators
\* Each header owns a Python list of defects; parse() extends the list it is
\* handed.  The heap maps the address of each live list to its contents.
Extend(h, ref, defects) == [h EXCEPT ![ref] = @ \o defects]

FreshRef(h) ==
  CHOOSE a \in 1..(Cardinality(DOMAIN h) + 1) :
    a \notin DOMAIN h /\ \A b \in 1..(a - 1) : b \in DOMAIN h

\* Variant: one defects list shared by every header (a mutable default).
NewDefects_shared(h) ==
  [ref |-> 1,
   heap |-> [b \in DOMAIN h \cup {1} |-> IF b \in DOMAIN h THEN h[b] ELSE <<>>]]

\* BaseHeader.__new__: kwds = {'defects': []} -- a new, empty list per header
NewDefects(h) ==
  LET a == FreshRef(h)
  IN [ref |-> a, heap |-> [b \in DOMAIN h \cup {a} |-> IF b = a THEN <<>> ELSE h[b]]]

\* ------------------------------------------------------------------ parse()
NoTree == TokenList("none", <<>>, <<>>)

\* What parse(value, kwds) left behind: the exception it raised ("None" when
\* it returned), kwds["parse_tree"], kwds["decoded"], the heap holding
\* kwds["defects"], whether the IndexError handler ran, and the grammar
\* parsers the header class itself called, in order.
ParseResult(exc, tree, decoded, h, fallback, calls) ==
  [exc |-> exc, parse_tree |-> tree, decoded |-> decoded, heap |-> h,
   fallback |-> fallback, calls |-> calls]

\* UnstructuredHeader.parse: the tree's defects are not copied into kwds
UnstructuredHeader_parse(value, ref, h) ==
  LET tree == get_unstructured(value)
  IN ParseResult("None", tree, Str(tree), h, FALSE, <<"get_unstructured">>)

\* the three statements that end MessageIDHeader.parse and
\* RelayMessageIDHeader.parse (lines 53-55)
StoreParseTree(tree, ref, h, fallback, calls) ==
  IF AllDefectsRaises(tree)
  THEN ParseResult("AttributeError", tree, Str(tree), h, fallback, calls)
  ELSE ParseResult("None", tree, Str(tree), Extend(h, ref, AllDefects(tree)),
                   fallback, calls)

\* parse when cls.value_parser(value) did r and nothing catches what it raised
StoreOrRaise(r, ref, h) ==
  IF r.exc # "None"
  THEN ParseResult(r.exc, NoTree, <<>>, h, FALSE, <<"parse_message_id">>)
  ELSE StoreParseTree(r.tree, ref, h, FALSE, <<"parse_message_id">>)

\* MessageIDHeader.parse of the standard library
MessageIDHeader_parse(value, ref, h) ==
  StoreOrRaise(parse_message_id(value), ref, h)

\* the except IndexError branch, lines 45-52
FallbackTree(value) ==
  TokenList("invalid-message-id", get_unstructured(value).children,
            <<IndexErrorDefect(value)>>)

\* lines 42-55, cls.value_parser(value) having done r
TryValueParser(value, r, ref, h) ==
  IF r.exc = "IndexError"
  THEN StoreParseTree(FallbackTree(value), ref, h, TRUE,
                      <<"parse_message_id", "get_unstructured">>)
  ELSE StoreOrRaise(r, ref, h)

\* Variant: no except clause, as in the standard library's MessageIDHeader.
RelayMessageIDHeader_parse_uncaught(value, ref, h) ==
  LET r == parse_message_id(value)
  IN IF r.exc # "None"
     THEN ParseResult(r.exc, NoTree, <<>>, h, FALSE, <<"parse_message_id">>)
     ELSE StoreParseTree(r.tree, ref, h, FALSE, <<"parse_message_id">>)

\* Variant: except Exception, which recovers from every failure class.
RelayMessageIDHeader_parse_catch_all(value, ref, h) ==
  LET r == parse_message_id(value)
  IN IF r.exc # "None"
     THEN StoreParseTree(FallbackTree(value), ref, h, TRUE,
                         <<"parse_message_id", "get_unstructured">>)
     ELSE StoreParseTree(r.tree, ref, h, FALSE, <<"parse_message_id">>)

\* Variant: the fallback tree replaces the grammar parser's tree even when the
\* grammar parser returned one.
RelayMessageIDHeader_parse_always_fallback(value, ref, h) ==
  LET r == parse_message_id(value)
  IN IF r.exc \in {"None", "IndexError"}
     THEN StoreParseTree(FallbackTree(value), ref, h, TRUE,
                         <<"parse_message_id", "get_unstructured">>)
     ELSE ParseResult(r.exc, NoTree, <<>>, h, FALSE, <<"parse_message_id">>)

\* RelayMessageIDHeader.parse: try cls.value_parser(value), except IndexError
RelayMessageIDHeader_parse(value, ref, h) ==
  TryValueParser(value, parse_message_id(value), ref, h)

\* cls.parse(value, kwds), dispatched on the class
Parse(cls, value, ref, h) ==
  CASE cls = "UnstructuredHeader" -> UnstructuredHeader_parse(value, ref, h)
    [] cls = "MessageIDHeader" -> MessageIDHeader_parse(value, ref, h)
    [] cls = "RelayMessageIDHeader" -> RelayMessageIDHeader_parse(value, ref, h)

\* ------------------------------------------------------------ header objects
NoInst == [cls |-> "none"]

\* utils._sanitize: surrogate-escaped characters become U+FFFD
sanitize(decoded) ==
  [i \in DOMAIN decoded |-> IF decoded[i] = "\\udc80" THEN "\\ufffd" ELSE decoded[i]]

\* BaseHeader.__new__ once cls.parse(value, kwds) has done r
BaseHeader_new_after(cls, name, kwds, r) ==
  IF r.exc # "None"
  THEN [exc |-> r.exc, inst |-> NoInst, heap |-> r.heap, calls |-> r.calls,
        recorded |-> r.heap[kwds.ref]]
  ELSE [exc |-> "None",
        inst |-> [cls |-> cls, name |-> name, decoded |-> sanitize(r.decoded),
                  parse_tree |-> r.parse_tree, defects_ref |-> kwds.ref,
                  fallback |-> r.fallback],
        heap |-> r.heap, calls |-> r.calls, recorded |-> r.heap[kwds.ref]]

\* BaseHeader.__new__ from cls.parse(value, kwds) on
BaseHeader_new_parse(cls, name, value, kwds) ==
  BaseHeader_new_after(cls, name, kwds, Parse(cls, value, kwds.ref, kwds.heap))

\* BaseHeader.__new__(cls, name, value): the header is the str kwds['decoded']
\* and keeps the list kwds['defects'] itself, not a copy of it
BaseHeader_new(cls, name, value, h) ==
  BaseHeader_new_parse(cls, name, value, NewDefects(h))

\* the defects property of a header: tuple(self._defects)
Defects(inst, h) == h[inst.defects_ref]

\* --------------------------------------------------------------- the registry
\* Variant: the name is stored as given, without lower().
map_to_type_exact(registry, name, cls) ==
  [k \in DOMAIN registry \cup {name} |-> IF k = name THEN cls ELSE registry[k]]

\* HeaderRegistry.map_to_type
map_to_type(registry, name, cls) ==
  [k \in DOMAIN registry \cup {lower(name)} |->
     IF k = lower(name) THEN cls ELSE registry[k]]

\* HeaderRegistry.__getitem__: registry.get(name.lower(), default_class)
getitem(registry, name) ==
  IF lower(name) \in DOMAIN registry THEN registry[lower(name)] ELSE default_class

\* Variant: __call__ caches the class it resolved under the name as given.
RegistryAfterCall_caching(registry, name) ==
  [k \in DOMAIN registry \cup {name} |->
     IF k = name THEN getitem(registry, name) ELSE registry[k]]

\* RelayHeaderRegistry.__call__ does not assign to self.registry
RegistryAfterCall(registry, name) == registry

\* Variant: the view is built with the class resolved for the name.
as_unstructured_cls_resolved(cls) == cls

\* as_unstructured_cls = type("_UnstructuredHeader",
\*                            (UnstructuredHeader, self.base_class), {})
\* whatever class cls the registry resolved for the name
as_unstructured_cls(cls) == "UnstructuredHeader"

\* Variant: an unstructured header serves as its own view.
as_unstructured_new_reuse(cls, name, value, header_instance) ==
  IF cls = "UnstructuredHeader"
  THEN [header_instance EXCEPT !.calls = <<>>]
  ELSE BaseHeader_new("UnstructuredHeader", name, value, header_instance.heap)

\* as_unstructured = as_unstructured_cls(name, value): a second header, built
\* after header_instance from the same name and value
as_unstructured_new(cls, name, value, header_instance) ==
  BaseHeader_new(as_unstructured_cls(cls), name, value, header_instance.heap)

\* lines 68-69: the view is attached and the header returned, unless line 63
\* raised, which leaves lines 64-69 unexecuted
AttachView(registry, name, cls, header_instance, as_unstructured) ==
  IF header_instance.exc # "None"
  THEN [exc |-> header_instance.exc, cls |-> cls, inst |-> NoInst,
        heap |-> header_instance.heap, calls |-> header_instance.calls,
        recorded |-> header_instance.recorded,
        registry |-> RegistryAfterCall(registry, name)]
  ELSE [exc |-> "None", cls |-> cls,
        inst |-> [cls |-> header_instance.inst.cls,
                  name |-> name,
                  decoded |-> header_instance.inst.decoded,
                  parse_tree |-> header_instance.inst.parse_tree,
                  defects_ref |-> header_instance.inst.defects_ref,
                  fallback |-> header_instance.inst.fallback,
                  as_unstructured |-> as_unstructured.inst],
        heap |-> as_unstructured.heap,
        calls |-> header_instance.calls \o as_unstructured.calls,
        recorded |-> header_instance.recorded,
        registry |-> RegistryAfterCall(registry, name)]

\* lines 64-69, header_instance being what line 63 did
BuildView(registry, name, value, cls, header_instance) ==
  AttachView(registry, name, cls, header_instance,
             as_unstructured_new(cls, name, value, header_instance))

\* lines 63-69, cls being the class HeaderRegistry.__call__ finds for name
CallResolved(registry, name, value, h, cls) ==
  BuildView(registry, name, value, cls, BaseHeader_new(cls, name, value, h))

\* RelayHeaderRegistry.__call__(name, value)
RelayHeaderRegistry_call(registry, name, value, h) ==
  CallResolved(registry, name, value, h, getitem(registry, name))

\* Variant: line 73 is missing, the default map's MessageIDHeader stays bound.
relay_header_factory_default_map ==
  [k \in {MessageIdLower} |-> "MessageIDHeader"]

\* relay_header_factory: of HeaderRegistry's default map only the entry for
\* message-id belongs to a header family of this model; line 73 replaces it
relay_header_factory ==
  [k \in {MessageIdLower} |-> "RelayMessageIDHeader"]

\* ------------------------------------------------------------- the state
VARIABLES
  registry,  \* relay_header_factory.registry: lower-case name -> parser class
  heap,      \* the defect lists of the headers that are still referenced
  call,      \* the last operation and its arguments
  ret,       \* what the last operation returned or raised
  kept,      \* an earlier header the caller still holds, with what it read
  lastReg    \* history: per name, the last registration under that name

vars == <<registry, heap, call, ret, kept, lastReg>>

NoRet ==
  [exc |-> "None", cls |-> "none", inst |-> NoInst, calls |-> <<>>,
   recorded |-> <<>>]

NoKept == [name |-> <<>>, value |-> <<>>, inst |-> NoInst, seen |-> <<>>]

NoCall == [op |-> "none", name |-> <<>>, value |-> <<>>, cls |-> "none"]

\* header names are compared without regard to letter case
SameHeaderName(a, b) ==
  /\ Len(a) = Len(b)
  /\ \A i \in DOMAIN a : LowerChar(a[i]) = LowerChar(b[i])

Refs(inst) ==
  IF inst = NoInst THEN {}
  ELSE {inst.defects_ref, inst.as_unstructured.defects_ref}

Restrict(h, refs) == [a \in DOMAIN h \cap refs |-> h[a]]

Init ==
  /\ registry = relay_header_factory
  /\ heap = Restrict(<<>>, {})
  /\ call = NoCall
  /\ ret = NoRet
  /\ kept = NoKept
  /\ lastReg = [n \in Names |->
                  IF SameHeaderName(n, MessageIdLower)
                  THEN [cls |-> "RelayMessageIDHeader", by |-> "module"]
                  ELSE [cls |-> "none", by |-> "none"]]

\* the caller has no result of relay_header_factory(...) left to deal with
Idle == call.op # "construct"

\* relay_header_factory(name, value), called when the caller has dealt with
\* the result of the call before.  The headers the caller holds stay alive.
Construct(name, value) ==
  /\ Idle
  /\ \E r \in {RelayHeaderRegistry_call(registry, name, value,
                                         Restrict(heap, Refs(kept.inst)))} :
       /\ call' = [op |-> "construct", name |-> name, value |-> value,
                   cls |-> "none"]
       /\ ret' = [exc |-> r.exc, cls |-> r.cls, inst |-> r.inst,
                  calls |-> r.calls, recorded |-> r.recorded]
       /\ heap' = Restrict(r.heap, Refs(kept.inst) \cup Refs(r.inst))
       /\ registry' = r.registry
  /\ UNCHANGED <<kept, lastReg>>

\* the caller drops the header it was returned, or handles the exception
Discard ==
  /\ call.op = "construct"
  /\ call' = NoCall
  /\ ret' = NoRet
  /\ heap' = Restrict(heap, Refs(kept.inst))
  /\ UNCHANGED <<registry, kept, lastReg>>

\* the caller holds on to the header it was returned, with the defects it
\* read from it, in place of the one it held
Keep ==
  /\ call.op = "construct"
  /\ ret.exc = "None"
  /\ kept' = [name |-> call.name, value |-> call.value, inst |-> ret.inst,
              seen |-> Defects(ret.inst, heap)]
  /\ call' = NoCall
  /\ ret' = NoRet
  /\ heap' = Restrict(heap, Refs(ret.inst))
  /\ UNCHANGED <<registry, lastReg>>

\* relay_header_factory.map_to_type(name, cls); the caller holds no header
\* across a registration
Register(name, cls) ==
  /\ Idle
  /\ registry' = map_to_type(registry, name, cls)
  /\ lastReg' = [n \in Names |->
                   IF SameHeaderName(n, name)
                   THEN [cls |-> cls, by |-> "map_to_type"]
                   ELSE lastReg[n]]
  /\ call' = NoCall
  /\ ret' = NoRet
  /\ kept' = NoKept
  /\ heap' = Restrict(heap, {})

Next ==
  \/ Idle /\ \E name \in Names, value \in ValuesUpTo(MaxLen) :
               Construct(name, value)
  \/ Discard
  \/ \E name \in Names, cls \in Classes : Register(name, cls)

Spec == Init /\ [][Next]_vars

NextKept ==
  \/ Idle /\ \E name \in Names, value \in ValuesUpTo(MaxLenKept) :
               Construct(name, value)
  \/ Discard
  \/ Keep
  \/ \E name \in Names, cls \in Classes : Register(name, cls)

SpecKept == Init /\ [][NextKept]_vars

\* ================================================================== claims
\* the last operation was relay_header_factory(call.name, call.value)
Constructed == call.op = "construct"

\* ... and it returned a header
ReturnedHeader == Constructed /\ ret.exc = "None"

\* the decoded string of a header built by the unstructured parser alone
UnstructuredDecoding(value) == sanitize(Str(get_unstructured(value)))

\* the failure of the msg-id header parsers on value before any recovery:
\* the exception of parse_message_id, or of reading the tree's all_defects
PrimaryFailure(value) ==
  LET r == parse_message_id(value)
  IN IF r.exc # "None" THEN r.exc
     ELSE IF AllDefectsRaises(r.tree) THEN "AttributeError" ELSE "None"

IsCrashDefect(d) == d.kind = "IndexError for invalid msg-id in"

CrashDefects(defects) == {i \in DOMAIN defects : IsCrashDefect(defects[i])}

\* every defect of sub occurs in defects at least as often as in sub
ContainsAll(defects, sub) ==
  \A i \in DOMAIN sub :
    Cardinality({j \in DOMAIN defects : defects[j] = sub[i]})
      >= Cardinality({j \in DOMAIN sub : sub[j] = sub[i]})

ViewIsUnstructured ==
  /\ ret.inst.as_unstructured.cls = "UnstructuredHeader"
  /\ ret.inst.as_unstructured.parse_tree = get_unstructured(call.value)
  /\ ret.inst.as_unstructured.decoded = UnstructuredDecoding(call.value)
  /\ ret.calls[Len(ret.calls)] = "get_unstructured"

C2_FallbackOnIndexError ==
  (/\ Constructed
   /\ SameHeaderName(call.name, MessageIdLower)
   /\ ret.cls = "RelayMessageIDHeader"
   /\ parse_message_id(call.value).exc = "IndexError")
  => /\ ret.exc = "None"
     /\ ret.inst.fallback
     /\ ret.inst.parse_tree.type = "invalid-message-id"
     /\ ret.inst.parse_tree.children = get_unstructured(call.value).children
     /\ ret.inst.decoded # <<>>
     /\ ret.inst.decoded = UnstructuredDecoding(call.value)

C2_Witness ==
  /\ ReturnedHeader
  /\ SameHeaderName(call.name, MessageIdLower)
  /\ ret.inst.fallback
  /\ ret.inst.decoded # call.value

\* C3 as stated: after RelayMessageIDHeader.parse returns, decoded is the
\* string of the tree produced and the defects hold every defect of that
\* tree; on the fallback path they hold all defects of the unstructured parse
\* of the value and exactly one crash defect naming the value; on the success
\* path they hold no crash defect.
C3_Original ==
  (ReturnedHeader /\ ret.cls = "RelayMessageIDHeader")
  => /\ ret.inst.decoded = Str(ret.inst.parse_tree)
     /\ ContainsAll(Defects(ret.inst, heap), AllDefects(ret.inst.parse_tree))
     /\ ret.inst.fallback =>
          /\ ContainsAll(Defects(ret.inst, heap),
                         AllDefects(get_unstructured(call.value)))
          /\ Cardinality(CrashDefects(Defects(ret.inst, heap))) = 1
          /\ IndexErrorDefect(call.value) \in
               {Defects(ret.inst, heap)[i] : i \in DOMAIN Defects(ret.inst, heap)}
     /\ ~ret.inst.fallback => CrashDefects(Defects(ret.inst, heap)) = {}

\* C4: a failure of the msg-id parser other than the IndexError leaves
\* construct as it was raised: no header, no unstructured view, no crash
\* defect; and the fallback is taken for the IndexError alone.
C4_OtherFailuresPropagate ==
  (Constructed /\ ret.cls \in {"RelayMessageIDHeader", "MessageIDHeader"})
  => /\ PrimaryFailure(call.value) \notin {"None", "IndexError"}
        => /\ ret.exc = PrimaryFailure(call.value)
           /\ ret.inst = NoInst
           /\ ret.calls = <<"parse_message_id">>
           /\ CrashDefects(ret.recorded) = {}
           /\ DOMAIN heap = Refs(kept.inst)
     /\ (ret.exc = "None" /\ ret.inst.fallback)
        => parse_message_id(call.value).exc = "IndexError"

C4_Witness ==
  /\ Constructed
  /\ ret.cls = "RelayMessageIDHeader"
  /\ ret.exc = "UnboundLocalError"

C7_DefaultRegistryIsResilient ==
  (/\ Constructed
   /\ SameHeaderName(call.name, MessageIdLower)
   /\ lastReg[call.name].by = "module")
  => /\ ret.cls = "RelayMessageIDHeader"
     /\ ret.exc # "IndexError"
     /\ parse_message_id(call.value).exc = "IndexError"
          => (ret.exc = "None" /\ ret.inst.fallback)

C7_Witness ==
  /\ ReturnedHeader
  /\ call.name = MessageIdMixed
  /\ lastReg[call.name].by = "module"
  /\ ret.inst.fallback

\* C8: a second construct with the name and value of a header the caller
\* still holds, no registration in between, returns a header with the same
\* decoded string, the same defects and the same view; neither header's
\* defects grew, and the four defect lists are four objects.
C8_RepeatedConstruct ==
  (/\ Constructed
   /\ kept.inst # NoInst
   /\ call.name = kept.name
   /\ call.value = kept.value)
  => /\ ret.exc = "None"
     /\ ret.inst.decoded = kept.inst.decoded
     /\ Defects(ret.inst, heap) = kept.seen
     /\ Defects(kept.inst, heap) = kept.seen
     /\ ret.inst.as_unstructured.decoded = kept.inst.as_unstructured.decoded
     /\ Cardinality(Refs(ret.inst) \cup Refs(kept.inst)) = 4

C8_Witness ==
  /\ Constructed
  /\ kept.inst # NoInst
  /\ call.name = kept.name
  /\ call.value = kept.value
  /\ kept.inst.fallback
  /\ kept.seen # <<>>

\* C9: when the class resolved for the name is the unstructured one, by
\* registration or by default, the header's decoded string equals its view's,
\* and the view comes from a second parse with a defects list of its own.
C9_UnstructuredTwice ==
  (Constructed /\ ret.cls = "UnstructuredHeader")
  => /\ ret.exc = "None"
     /\ ret.inst.decoded = ret.inst.as_unstructured.decoded
     /\ ret.calls = <<"get_unstructured", "get_unstructured">>
     /\ ret.inst.defects_ref # ret.inst.as_unstructured.defects_ref

C9_Witness ==
  /\ ReturnedHeader
  /\ ret.cls = "UnstructuredHeader"
  /\ SameHeaderName(call.name, MessageIdLower)
  /\ lastReg[call.name].by = "map_to_type"
  /\ ret.inst.decoded # call.value

\* C10: a construct step leaves the registry as it was, whatever it returns
\* or raises, and the registry changes only in a registration step.
C10_ConstructKeepsRegistry ==
  [][/\ call'.op = "construct" => registry' = registry
     /\ registry' # registry => (lastReg' # lastReg /\ call'.op # "construct")
    ]_vars

C10_Witness ==
  /\ Constructed
  /\ ret.exc = "UnboundLocalError"
  /\ XCustom \in DOMAIN registry

====
